---- MODULE Spec2Model ----
(***************************************************************************)
(* Model of the ANTA checks: every check is a function that builds a       *)
(* TestResult, sends its command(s) through device.session, inspects the   *)
(* response and returns the TestResult.  A check run is modelled step by   *)
(* step: call (construction + parameter guard), collection (the RPC) and   *)
(* verification (one step per assignment of the result's status).          *)
(***************************************************************************)
EXTENDS Integers, Sequences, FiniteSets, TLC

VARIABLES
    pc,        \* position of the running check: idle, collect, verify, ..., done
    test,      \* name of the check being run ("" before the first call)
    args,      \* parameters the check was called with
    response,  \* what the RPC of the check produced: response[0], or the exception
               \* the session raised (NoResponse before the RPC)
    locals,    \* local variables that live across steps of a check
    result,    \* the TestResult of the running check
    returned,  \* what the call handed back: pending, TestResult, nothing (raised)
    raised,    \* the exception that left the check, NoExc when none did
    rpcs,      \* the RPC calls sent to the device, in order
    ran        \* the checks called so far in the current run: for each its name,
               \* how many times it was called and, when the caller kept it,
               \* the outcome of its last call

vars == <<pc, test, args, response, locals, result, returned, raised, rpcs, ran>>

-----------------------------------------------------------------------------
(* Bounds *)

\* Peers in one BGP summary response; also the largest expected peer number.
MaxPeers == 2
\* Checks one orchestration run calls on the device (SpecRun).
MaxChecks == 2
\* Characters of a running-config diff returned as text.
MaxText == 3
\* Parameter sets given to run_template.
MaxParams == 2
\* Times a check is run against the unchanged device (SpecRerun).
MaxRuns == 2

-----------------------------------------------------------------------------
(* Python values *)

\* An optional value: <<>> is None, <<v>> is the value v.
None == <<>>
Some(v) == <<v>>

\* Python truthiness of an optional int: `not number` is true for None and 0.
TruthyInt(o) == o /= None /\ o[1] /= 0
\* ... of an optional str: false for None and "".
TruthyStr(o) == o /= None /\ o[1] /= ""
\* ... of an optional list: false for None and [].
TruthyList(o) == o /= None /\ o[1] /= <<>>

Range(s) == {s[i] : i \in DOMAIN s}

-----------------------------------------------------------------------------
(* Exceptions *)

NoExc == [type |-> "", code |-> 0, msg |-> ""]
SocketTimeout == [type |-> "socket.timeout", code |-> 0, msg |-> "timed out"]
AppError == [type |-> "AppError", code |-> 1002, msg |-> "CLI command 1 of 1 failed: invalid command"]
ConnectionRefused == [type |-> "ConnectionRefusedError", code |-> 111, msg |-> "Connection refused"]
KeyError(k) == [type |-> "KeyError", code |-> 0, msg |-> k]
UnboundLocalError(v) == [type |-> "UnboundLocalError", code |-> 0, msg |-> v]
IndexError == [type |-> "IndexError", code |-> 0, msg |-> "list index out of range"]
ValueError(v) == [type |-> "ValueError", code |-> 0, msg |-> v]
TypeError(m) == [type |-> "TypeError", code |-> 0, msg |-> m]

\* What device.session.runCmds can raise instead of answering.
TransportErrors == {SocketTimeout, AppError, ConnectionRefused}

\* str(e): KeyError renders the repr of its key, an exception with (code, msg)
\* arguments renders the tuple, any other renders its single argument.
Str(e) ==
    CASE e.type = "KeyError" -> "'" \o e.msg \o "'"
      [] e.type = "AppError" -> "(" \o ToString(e.code) \o ", '" \o e.msg \o "')"
      [] e.type = "ConnectionRefusedError" -> "[Errno " \o ToString(e.code) \o "] " \o e.msg
      [] e.type = "UnboundLocalError" ->
            "local variable '" \o e.msg \o "' referenced before assignment"
      [] e.type = "ValueError" ->
            "invalid literal for int() with base 10: '" \o e.msg \o "'"
      [] OTHER -> e.msg

-----------------------------------------------------------------------------
(* TestResult (anta.result_manager.models) *)

Host == "device1"
Terminal == {"skipped", "success", "failure", "error"}
Statuses == {"unset"} \cup Terminal

TestResult(name) == [host |-> Host, test |-> name, result |-> "unset", messages |-> <<>>]

\* is_xxx(message): set the status, append the message unless it is empty.
set_status(r, status, message) ==
    [r EXCEPT !.result = status,
              !.messages = IF message = "" THEN @ ELSE Append(@, message)]
is_success(r) == set_status(r, "success", "")
is_failure(r, message) == set_status(r, "failure", message)
is_skipped(r, message) == set_status(r, "skipped", message)
is_error(r, message) == set_status(r, "error", message)

\* The message put in place of the list instead of at its end
append_message_overwriting(r, m) == [r EXCEPT !.messages = <<m>>]

\* result.messages.append(m): the status is left alone.
append_message(r, m) == [r EXCEPT !.messages = Append(@, m)]

-----------------------------------------------------------------------------
(* How a step of a check ends *)

NoResponse == [shape |-> "none"]
NoLocals == [none |-> TRUE]

\* `return result`
Return(r) ==
    /\ pc' = "done"
    /\ result' = r
    /\ returned' = "TestResult"
    /\ raised' = NoExc

\* an exception no except clause of the check names leaves the check
Throw(r, e) ==
    /\ pc' = "done"
    /\ result' = r
    /\ returned' = "nothing"
    /\ raised' = e

\* try: ... except (caught) as e: result.is_error(str(e)); return result
Except(r, e, caught) ==
    IF e.type \in caught THEN Return(is_error(r, Str(e))) ELSE Throw(r, e)

\* Outcome of a computation inside a try block: a TestResult, or an exception
\* together with the TestResult as it stood when the exception was raised.
Ok(r) == [kind |-> "ok", result |-> r, exc |-> NoExc]
Exc(r, e) == [kind |-> "exc", result |-> r, exc |-> e]

Finish(o, caught) ==
    IF o.kind = "ok" THEN Return(o.result) ELSE Except(o.result, o.exc, caught)

\* device.session.runCmds(1, cmds, ofmt): one RPC; the device answers one of
\* `responses` or the call raises.  The exception is handled by the check's
\* except clause (`caught`).
Rpc(cmds, ofmt) == [cmds |-> cmds, ofmt |-> ofmt, revision |-> "1"]
Raised(e) == [exception |-> e]

\* The calls of a check made so far in the run.
Called(name) == {h \in ran : h.test = name}

\* The device does not change while a check is called again: the call whose
\* outcome the caller kept was answered, or failed, and so is the next one, in
\* the same way.  Before any call was kept, any of `responses` and any of
\* `errors` can come.
KeptResponses ==
    {h.outcome[1].response :
        h \in {k \in Called(test) : k.outcome /= None /\ k.outcome[1].response /= NoResponse}}
Answers(responses) ==
    IF KeptResponses = {} THEN responses
    ELSE {r \in KeptResponses : "exception" \notin DOMAIN r}
Fails(errors) ==
    IF KeptResponses = {} THEN errors
    ELSE {r.exception : r \in {x \in KeptResponses : "exception" \in DOMAIN x}}

runCmds(cmds, ofmt, responses, caught) ==
    /\ rpcs' = Append(rpcs, Rpc(cmds, ofmt))
    /\ \/ \E e \in Fails(TransportErrors) :
            /\ Except(result, e, caught)
            /\ response' = Raised(e)
       \/ \E r \in Answers(responses) :
            /\ response' = r
            /\ pc' = "verify"
            /\ UNCHANGED <<result, returned, raised>>
    /\ UNCHANGED <<test, args, locals, ran>>

-----------------------------------------------------------------------------
(* The orchestrator's call of a check *)

NoArgs == [number |-> None, vrf |-> None, versions |-> None]

\* The caller's side of a call: the next check of the run on the device.  A run
\* calls at most MaxChecks checks, each once; a caller that kept the outcome of
\* a check may call that check again with the same parameters, MaxRuns times
\* in all.
Enter(name, a) ==
    /\ pc = "idle"
    /\ \/ /\ Called(name) = {}
          /\ \A h \in ran : h.outcome = None
          /\ Cardinality(ran) < MaxChecks
          /\ ran' = ran \cup {[test |-> name, calls |-> 1, outcome |-> None]}
       \/ \E h \in Called(name) :
            /\ h.outcome /= None
            /\ h.outcome[1].args = a
            /\ h.calls < MaxRuns
            /\ ran' = (ran \ {h}) \cup {[h EXCEPT !.calls = @ + 1]}
    /\ test' = name
    /\ args' = a
    /\ response' = NoResponse
    /\ locals' = NoLocals
    /\ rpcs' = rpcs

\* The function body entered on a TestResult kept from the previous call
Begin_on_kept_result(name) ==
    /\ pc' = "collect"
    /\ result' = IF \E h \in Called(name) : h.outcome /= None
                 THEN (CHOOSE h \in Called(name) : TRUE).outcome[1].result
                 ELSE TestResult(name)
    /\ returned' = "pending"
    /\ raised' = NoExc

\* The function body is entered: `result = TestResult(host=..., test=function_name)`
Begin(name) ==
    /\ pc' = "collect"
    /\ result' = TestResult(name)
    /\ returned' = "pending"
    /\ raised' = NoExc

\* check_bgp_family_enable(family): a precondition evaluated before the check's
\* body; when the address family is not enabled the check is skipped and the
\* body never runs.
check_bgp_family_enable(name, family, body) ==
    \/ Return(is_skipped(TestResult(name), "no BGP " \o family \o " peer is configured"))
    \/ body

-----------------------------------------------------------------------------
(* BGP summary responses: response[0]["vrfs"][vrf]["peers"][peer] *)

VRFs == {"default", "red"}
PeerNames == {"10.0.0." \o ToString(i) : i \in 1..MaxPeers}
PeerStates == {"Established", "Idle"}
\* The checks only compare a queue depth with 0.
QueueDepths == {0, 1}
PeerEntries == [peerState : PeerStates, inMsgQueue : QueueDepths, outMsgQueue : QueueDepths]

\* The nested dict of the VRFs `present`, with the peers of the flat map f.
Nest(present, f) ==
    [v \in present |->
        [peers |-> [p \in {q \in PeerNames : <<v, q>> \in DOMAIN f} |-> f[<<v, p>>]]]]

\* Every summary over the VRFs `asked` with at most MaxPeers peers in all, and a
\* response that lacks the "vrfs" key.
BgpSummaries(asked) ==
    {[errors |-> "not supported"]} \cup
    UNION {
        UNION { {[vrfs |-> Nest(present, f)] :
                    present \in {V \in SUBSET asked : {x[1] : x \in S} \subseteq V}} :
                f \in [S -> PeerEntries] } :
        S \in {T \in SUBSET (asked \X PeerNames) : Cardinality(T) <= MaxPeers} }

\* The (vrf, peer) keys of a vrfs dict, in one set.
PeerKeys(bgp_vrfs) == {<<v, p>> : v \in DOMAIN bgp_vrfs, p \in PeerNames} \cap
                      UNION {{<<v, p>> : p \in DOMAIN bgp_vrfs[v].peers} : v \in DOMAIN bgp_vrfs}

\* (the test with the output queue left out)
peer_has_issue_in_queue_only(peer) ==
    \/ peer.peerState /= "Established"
    \/ peer.inMsgQueue /= 0

\* peerState != "Established" or inMsgQueue != 0 or outMsgQueue != 0
peer_has_issue(peer) ==
    \/ peer.peerState /= "Established"
    \/ peer.inMsgQueue /= 0
    \/ peer.outMsgQueue /= 0

\* vrf_dict = state_issue.setdefault(vrf, {}); vrf_dict.update({peer: {...}})
setdefault_update(state_issue, vrf, peer, entry) ==
    LET old == IF vrf \in DOMAIN state_issue THEN state_issue[vrf] ELSE <<>>
        new == [p \in DOMAIN old \cup {peer} |-> IF p = peer THEN entry ELSE old[p]]
    IN [v \in DOMAIN state_issue \cup {vrf} |-> IF v = vrf THEN new ELSE state_issue[v]]

\* for vrf in bgp_vrfs: for peer in bgp_vrfs[vrf]["peers"]: if <issue>: <record it>
RECURSIVE state_issue_loop(_, _, _)
state_issue_loop(bgp_vrfs, todo, state_issue) ==
    IF todo = {} THEN state_issue
    ELSE LET vp == CHOOSE x \in todo : TRUE
             entry == bgp_vrfs[vp[1]].peers[vp[2]]
         IN state_issue_loop(bgp_vrfs, todo \ {vp},
                IF peer_has_issue(entry)
                THEN setdefault_update(state_issue, vp[1], vp[2],
                        [peerState |-> entry.peerState,
                         inMsgQueue |-> entry.inMsgQueue,
                         outMsgQueue |-> entry.outMsgQueue])
                ELSE state_issue)

\* f"...: {state_issue}": the dict is rendered in full, keys and values.
FormatDict(prefix, d) == prefix \o ToString(d)

\* The body of the two unicast state checks after the RPC (they differ in the
\* address family named by the message).
unicast_state_verify(r, resp, family) ==
    IF "vrfs" \notin DOMAIN resp THEN Exc(r, KeyError("vrfs"))
    ELSE LET bgp_vrfs == resp.vrfs
             state_issue == state_issue_loop(bgp_vrfs, PeerKeys(bgp_vrfs), <<>>)
         IN IF state_issue = <<>>
            THEN Ok(is_success(r))
            ELSE Ok(is_failure(r,
                    FormatDict("Some " \o family \o " Unicast BGP Peer are not up: ", state_issue)))

BgpCaught == {"AppError", "KeyError", "socket.timeout"}

(* verify_bgp_ipv4_unicast_state *)
verify_bgp_ipv4_unicast_state_call ==
    /\ Enter("verify_bgp_ipv4_unicast_state", NoArgs)
    /\ check_bgp_family_enable("verify_bgp_ipv4_unicast_state", "ipv4",
            Begin("verify_bgp_ipv4_unicast_state"))

verify_bgp_ipv4_unicast_state_collect ==
    /\ pc = "collect" /\ test = "verify_bgp_ipv4_unicast_state"
    /\ runCmds(<<"show bgp ipv4 unicast summary vrf all">>, "json", BgpSummaries(VRFs), BgpCaught)

verify_bgp_ipv4_unicast_state_verify ==
    /\ pc = "verify" /\ test = "verify_bgp_ipv4_unicast_state"
    /\ Finish(unicast_state_verify(result, response, "IPv4"), BgpCaught)
    /\ UNCHANGED <<test, args, response, locals, rpcs, ran>>

(* verify_bgp_ipv6_unicast_state *)
verify_bgp_ipv6_unicast_state_call ==
    /\ Enter("verify_bgp_ipv6_unicast_state", NoArgs)
    /\ check_bgp_family_enable("verify_bgp_ipv6_unicast_state", "ipv6",
            Begin("verify_bgp_ipv6_unicast_state"))

verify_bgp_ipv6_unicast_state_collect ==
    /\ pc = "collect" /\ test = "verify_bgp_ipv6_unicast_state"
    /\ runCmds(<<"show bgp ipv6 unicast summary vrf all">>, "json", BgpSummaries(VRFs), BgpCaught)

verify_bgp_ipv6_unicast_state_verify ==
    /\ pc = "verify" /\ test = "verify_bgp_ipv6_unicast_state"
    /\ Finish(unicast_state_verify(result, response, "IPv6"), BgpCaught)
    /\ UNCHANGED <<test, args, response, locals, rpcs, ran>>

(* verify_bgp_ipv4_unicast_count *)
Numbers == {None} \cup {Some(n) : n \in 0..MaxPeers}
VrfArgs == {None} \cup {Some(v) : v \in VRFs}

\* {peer: {...} for peer in bgp_vrfs[vrf]["peers"] if <issue>}
peer_state_issue_of(peers) ==
    [p \in {q \in DOMAIN peers : peer_has_issue(peers[q])} |->
        [peerState |-> peers[p].peerState,
         inMsgQueue |-> peers[p].inMsgQueue,
         outMsgQueue |-> peers[p].outMsgQueue]]

ipv4_count_message(number, vrf, peer_number) ==
    "Expecting " \o ToString(number) \o " BGP peer in vrf " \o vrf \o
    " and got " \o ToString(peer_number)

verify_bgp_ipv4_unicast_count_verify_body(r, resp, number, vrf) ==
    IF "vrfs" \notin DOMAIN resp THEN Exc(r, KeyError("vrfs"))
    ELSE IF vrf \notin DOMAIN resp.vrfs THEN Exc(r, KeyError(vrf))
    ELSE LET peers == resp.vrfs[vrf].peers
             peer_number == Cardinality(DOMAIN peers)
             peer_state_issue == peer_state_issue_of(peers)
         IN IF peer_number = number \/ peer_state_issue /= <<>>
            THEN Ok(is_success(r))
            ELSE LET failed == is_failure(r, ipv4_count_message(number, vrf, peer_number))
                 IN IF peer_state_issue /= <<>>
                    THEN Ok(is_failure(failed,
                            FormatDict("Some IPv4 Unicast BGP Peer are not up: ", peer_state_issue)))
                    ELSE Ok(failed)

verify_bgp_ipv4_unicast_count_guard(name, a) ==
    IF ~TruthyInt(a.number) \/ ~TruthyStr(a.vrf)
    THEN Return(is_skipped(TestResult(name),
            "verify_bgp_ipv4_unicast_count could not run because number of vrf was not supplied"))
    ELSE Begin(name)

verify_bgp_ipv4_unicast_count_call ==
    \E number \in Numbers, vrf \in VrfArgs :
        /\ Enter("verify_bgp_ipv4_unicast_count",
                 [number |-> number, vrf |-> vrf, versions |-> None])
        /\ check_bgp_family_enable("verify_bgp_ipv4_unicast_count", "ipv4",
                verify_bgp_ipv4_unicast_count_guard("verify_bgp_ipv4_unicast_count",
                    [number |-> number, vrf |-> vrf, versions |-> None]))

verify_bgp_ipv4_unicast_count_collect ==
    /\ pc = "collect" /\ test = "verify_bgp_ipv4_unicast_count"
    /\ runCmds(<<"show bgp ipv4 unicast summary vrf " \o args.vrf[1]>>, "json",
               BgpSummaries({args.vrf[1]}), BgpCaught)

verify_bgp_ipv4_unicast_count_verify ==
    /\ pc = "verify" /\ test = "verify_bgp_ipv4_unicast_count"
    /\ Finish(verify_bgp_ipv4_unicast_count_verify_body(result, response,
                    args.number[1], args.vrf[1]), BgpCaught)
    /\ UNCHANGED <<test, args, response, locals, rpcs, ran>>

(* verify_bgp_evpn_state, verify_bgp_rtc_state *)
\* [peer for peer, peer_dict in peers.items() if peer_dict["peerState"] != "Established"]
non_established_peers_of(peers) ==
    {p \in DOMAIN peers : peers[p].peerState /= "Established"}

default_vrf_state_verify(r, resp, family) ==
    IF "vrfs" \notin DOMAIN resp THEN Exc(r, KeyError("vrfs"))
    ELSE IF "default" \notin DOMAIN resp.vrfs THEN Exc(r, KeyError("default"))
    ELSE LET non_established_peers == non_established_peers_of(resp.vrfs["default"].peers)
         IN IF non_established_peers = {}
            THEN Ok(is_success(r))
            ELSE Ok(is_failure(r,
                    FormatDict("The following " \o family \o " peers are not established: ",
                               non_established_peers)))

verify_bgp_evpn_state_call ==
    /\ Enter("verify_bgp_evpn_state", NoArgs)
    /\ check_bgp_family_enable("verify_bgp_evpn_state", "evpn", Begin("verify_bgp_evpn_state"))

verify_bgp_evpn_state_collect ==
    /\ pc = "collect" /\ test = "verify_bgp_evpn_state"
    /\ runCmds(<<"show bgp evpn summary">>, "json", BgpSummaries({"default"}), BgpCaught)

verify_bgp_evpn_state_verify ==
    /\ pc = "verify" /\ test = "verify_bgp_evpn_state"
    /\ Finish(default_vrf_state_verify(result, response, "EVPN"), BgpCaught)
    /\ UNCHANGED <<test, args, response, locals, rpcs, ran>>

verify_bgp_rtc_state_call ==
    /\ Enter("verify_bgp_rtc_state", NoArgs)
    /\ check_bgp_family_enable("verify_bgp_rtc_state", "rtc", Begin("verify_bgp_rtc_state"))

verify_bgp_rtc_state_collect ==
    /\ pc = "collect" /\ test = "verify_bgp_rtc_state"
    /\ runCmds(<<"show bgp rt-membership summary">>, "json", BgpSummaries({"default"}), BgpCaught)

verify_bgp_rtc_state_verify ==
    /\ pc = "verify" /\ test = "verify_bgp_rtc_state"
    /\ Finish(default_vrf_state_verify(result, response, "RTC"), BgpCaught)
    /\ UNCHANGED <<test, args, response, locals, rpcs, ran>>

(* verify_bgp_evpn_count *)
\* (the check without its `if not number` guard)
verify_bgp_evpn_count_unguarded(name, a) == Begin(name)

verify_bgp_evpn_count_guard(name, a) ==
    IF ~TruthyInt(a.number)
    THEN Return(is_skipped(TestResult(name),
            "verify_bgp_evpn_count could not run because number was not supplied."))
    ELSE Begin(name)

verify_bgp_evpn_count_verify_body(r, resp, number) ==
    IF "vrfs" \notin DOMAIN resp THEN Exc(r, KeyError("vrfs"))
    ELSE IF "default" \notin DOMAIN resp.vrfs THEN Exc(r, KeyError("default"))
    ELSE LET peers == resp.vrfs["default"].peers
             len == Cardinality(DOMAIN peers)
         IN IF len = number
            THEN Ok(is_success(r))
            ELSE LET failed == is_failure(r, "")
                 IN IF len /= number
                    THEN Ok(append_message(failed,
                            "Expecting " \o ToString(number) \o " BGP EVPN peers and got "
                            \o ToString(len)))
                    ELSE Ok(failed)

verify_bgp_evpn_count_call ==
    \E number \in Numbers :
        /\ Enter("verify_bgp_evpn_count",
                 [number |-> number, vrf |-> None, versions |-> None])
        /\ check_bgp_family_enable("verify_bgp_evpn_count", "evpn",
                verify_bgp_evpn_count_guard("verify_bgp_evpn_count",
                    [number |-> number, vrf |-> None, versions |-> None]))

verify_bgp_evpn_count_collect ==
    /\ pc = "collect" /\ test = "verify_bgp_evpn_count"
    /\ runCmds(<<"show bgp evpn summary">>, "json", BgpSummaries({"default"}), BgpCaught)

verify_bgp_evpn_count_verify ==
    /\ pc = "verify" /\ test = "verify_bgp_evpn_count"
    /\ Finish(verify_bgp_evpn_count_verify_body(result, response, args.number[1]), BgpCaught)
    /\ UNCHANGED <<test, args, response, locals, rpcs, ran>>

(* verify_bgp_rtc_count *)
verify_bgp_rtc_count_guard(name, a) ==
    IF ~TruthyInt(a.number)
    THEN Return(is_skipped(TestResult(name),
            "verify_bgp_rtc_count could not run because number was not supplied"))
    ELSE Begin(name)

verify_bgp_rtc_count_verify_body(r, resp, number) ==
    IF "vrfs" \notin DOMAIN resp THEN Exc(r, KeyError("vrfs"))
    ELSE IF "default" \notin DOMAIN resp.vrfs THEN Exc(r, KeyError("default"))
    ELSE LET peers == resp.vrfs["default"].peers
             len == Cardinality(DOMAIN peers)
             non_established_peers == non_established_peers_of(peers)
         IN IF non_established_peers = {} /\ len = number
            THEN Ok(is_success(r))
            ELSE LET failed == is_failure(r, "")
                 IN IF len /= number
                    THEN Ok(is_failure(failed,
                            "Expecting " \o ToString(number) \o " BGP RTC peers and got "
                            \o ToString(len)))
                    ELSE Ok(failed)

verify_bgp_rtc_count_call ==
    \E number \in Numbers :
        /\ Enter("verify_bgp_rtc_count",
                 [number |-> number, vrf |-> None, versions |-> None])
        /\ check_bgp_family_enable("verify_bgp_rtc_count", "rtc",
                verify_bgp_rtc_count_guard("verify_bgp_rtc_count",
                    [number |-> number, vrf |-> None, versions |-> None]))

verify_bgp_rtc_count_collect ==
    /\ pc = "collect" /\ test = "verify_bgp_rtc_count"
    /\ runCmds(<<"show bgp rt-membership summary">>, "json", BgpSummaries({"default"}), BgpCaught)

verify_bgp_rtc_count_verify ==
    /\ pc = "verify" /\ test = "verify_bgp_rtc_count"
    /\ Finish(verify_bgp_rtc_count_verify_body(result, response, args.number[1]), BgpCaught)
    /\ UNCHANGED <<test, args, response, locals, rpcs, ran>>

-----------------------------------------------------------------------------
(* anta/tests/software.py *)

SoftwareCaught == {"AppError", "KeyError"}

EosVersions == {"4.27.0F", "4.28.1F"}
VersionsArgs == {None, Some(<<>>), Some(<<"4.27.0F">>), Some(<<"4.27.0F", "4.28.1F">>)}

(* verify_eos_version *)
verify_eos_version_guard(name, a) ==
    IF ~TruthyList(a.versions)
    THEN Return(append_message([TestResult(name) EXCEPT !.result = "unset"],
            "verify_eos_version was not run as no versions were givem"))
    ELSE Begin(name)

verify_eos_version_call ==
    \E versions \in VersionsArgs :
        /\ Enter("verify_eos_version", [number |-> None, vrf |-> None, versions |-> versions])
        /\ verify_eos_version_guard("verify_eos_version",
                [number |-> None, vrf |-> None, versions |-> versions])

ShowVersionResponses == {[errors |-> "not supported"]} \cup {[version |-> v] : v \in EosVersions}

verify_eos_version_collect ==
    /\ pc = "collect" /\ test = "verify_eos_version"
    /\ runCmds(<<"show version">>, "json", ShowVersionResponses, SoftwareCaught)

verify_eos_version_verify_body(r, resp, versions) ==
    IF "version" \notin DOMAIN resp THEN Exc(r, KeyError("version"))
    ELSE IF resp.version \in Range(versions)
    THEN Ok([r EXCEPT !.result = "success"])
    ELSE Ok(append_message([r EXCEPT !.result = "failure"],
            "device is running version " \o resp.version \o " not in expected version"))

verify_eos_version_verify ==
    /\ pc = "verify" /\ test = "verify_eos_version"
    /\ Finish(verify_eos_version_verify_body(result, response, args.versions[1]), SoftwareCaught)
    /\ UNCHANGED <<test, args, response, locals, rpcs, ran>>

(* verify_terminattr_version *)
TerminAttrArgs == {None, Some(<<>>), Some(<<"v1.13.6">>)}
TerminAttrVersions == {"v1.13.6", "v1.7.5"}

verify_terminattr_version_guard(name, a) ==
    IF ~TruthyList(a.versions)
    THEN Return(append_message([TestResult(name) EXCEPT !.result = "unset"],
            "verify_terminattr_version was not run as no versions were givem"))
    ELSE Begin(name)

verify_terminattr_version_call ==
    \E versions \in TerminAttrArgs :
        /\ Enter("verify_terminattr_version", [number |-> None, vrf |-> None, versions |-> versions])
        /\ verify_terminattr_version_guard("verify_terminattr_version",
                [number |-> None, vrf |-> None, versions |-> versions])

\* 'show version detail' as far as the check reads it: details.packages, with
\* the TerminAttr-core package present or not, and responses lacking a level.
TerminAttrResponses ==
    {[errors |-> "not supported"], [details |-> [switchType |-> "fixedSystem"]],
     [details |-> [packages |-> [Aboot |-> [version |-> "4.0.7"]]]]} \cup
    {[details |-> [packages |-> ("TerminAttr-core" :> [version |-> v])]] : v \in TerminAttrVersions}

verify_terminattr_version_collect ==
    /\ pc = "collect" /\ test = "verify_terminattr_version"
    /\ runCmds(<<"show version detail">>, "json", TerminAttrResponses, SoftwareCaught)

verify_terminattr_version_verify_body(r, resp, versions) ==
    IF "details" \notin DOMAIN resp THEN Exc(r, KeyError("details"))
    ELSE IF "packages" \notin DOMAIN resp.details THEN Exc(r, KeyError("packages"))
    ELSE IF "TerminAttr-core" \notin DOMAIN resp.details.packages
    THEN Exc(r, KeyError("TerminAttr-core"))
    ELSE LET response_data == resp.details.packages["TerminAttr-core"].version
         IN IF response_data \in Range(versions)
            THEN Ok([r EXCEPT !.result = "success"])
            ELSE Ok(append_message([r EXCEPT !.result = "failure"],
                    "device is running TerminAttr version " \o response_data \o
                    " and is not in the allowed list"))

verify_terminattr_version_verify ==
    /\ pc = "verify" /\ test = "verify_terminattr_version"
    /\ Finish(verify_terminattr_version_verify_body(result, response, args.versions[1]),
              SoftwareCaught)
    /\ UNCHANGED <<test, args, response, locals, rpcs, ran>>

(* verify_field_notice_44_resolution *)
\* A model name is the sequence of its dash-separated parts:
\* 'DCS-7050TX-64-F' is <<"DCS", "7050TX", "64", "F">>.
devices ==
    {
     <<"DCS", "7010T", "48">>,
     <<"DCS", "7010T", "48", "DC">>,
     <<"DCS", "7050TX", "48">>,
     <<"DCS", "7050TX", "64">>,
     <<"DCS", "7050TX", "72">>,
     <<"DCS", "7050TX", "72Q">>,
     <<"DCS", "7050TX", "96">>,
     <<"DCS", "7050TX2", "128">>,
     <<"DCS", "7050SX", "64">>,
     <<"DCS", "7050SX", "72">>,
     <<"DCS", "7050SX", "72Q">>,
     <<"DCS", "7050SX2", "72Q">>,
     <<"DCS", "7050SX", "96">>,
     <<"DCS", "7050SX2", "128">>,
     <<"DCS", "7050QX", "32S">>,
     <<"DCS", "7050QX2", "32S">>,
     <<"DCS", "7050SX3", "48YC12">>,
     <<"DCS", "7050CX3", "32S">>,
     <<"DCS", "7060CX", "32S">>,
     <<"DCS", "7060CX2", "32S">>,
     <<"DCS", "7060SX2", "48YC6">>,
     <<"DCS", "7160", "48YC6">>,
     <<"DCS", "7160", "48TC6">>,
     <<"DCS", "7160", "32CQ">>,
     <<"DCS", "7280SE", "64">>,
     <<"DCS", "7280SE", "68">>,
     <<"DCS", "7280SE", "72">>,
     <<"DCS", "7150SC", "24", "CLD">>,
     <<"DCS", "7150SC", "64", "CLD">>,
     <<"DCS", "7020TR", "48">>,
     <<"DCS", "7020TRA", "48">>,
     <<"DCS", "7020SR", "24C2">>,
     <<"DCS", "7020SRG", "24C2">>,
     <<"DCS", "7280TR", "48C6">>,
     <<"DCS", "7280TRA", "48C6">>,
     <<"DCS", "7280SR", "48C6">>,
     <<"DCS", "7280SRA", "48C6">>,
     <<"DCS", "7280SRAM", "48C6">>,
     <<"DCS", "7280SR2K", "48C6", "M">>,
     <<"DCS", "7280SR2", "48YC6">>,
     <<"DCS", "7280SR2A", "48YC6">>,
     <<"DCS", "7280SRM", "40CX2">>,
     <<"DCS", "7280QR", "C36">>,
     <<"DCS", "7280QRA", "C36S">>
    }

\* The variant suffixes, in the order the check strips them.
variants == << <<"SSD", "F">>, <<"SSD", "R">>, <<"M", "F">>, <<"M", "R">>, <<"F">>, <<"R">> >>

\* Whether the parts of pat stand at position i of s.
MatchAt(s, pat, i) ==
    /\ i + Len(pat) - 1 <= Len(s)
    /\ \A j \in 1..Len(pat) : s[i + j - 1] = pat[j]

\* model.replace(variant, ''): every occurrence, left to right, is removed.  The
\* variant starts with a dash, so it never matches the first part of the name.
RECURSIVE replace_from(_, _, _)
replace_from(s, pat, i) ==
    IF i > Len(s) THEN s
    ELSE IF i >= 2 /\ MatchAt(s, pat, i)
    THEN replace_from(SubSeq(s, 1, i - 1) \o SubSeq(s, i + Len(pat), Len(s)), pat, i)
    ELSE replace_from(s, pat, i + 1)

\* for variant in variants: model = model.replace(variant, '')
RECURSIVE strip_variants(_, _)
strip_variants(model, k) ==
    IF k > Len(variants) THEN model
    ELSE strip_variants(replace_from(model, variants[k], 1), k + 1)

\* '.'.join(parts) and '-'.join(parts)
RECURSIVE Join(_, _)
Join(parts, sep) ==
    IF parts = <<>> THEN ""
    ELSE IF Len(parts) = 1 THEN parts[1]
    ELSE parts[1] \o sep \o Join(Tail(parts), sep)

\* int(s): the number a decimal literal denotes, NotAnInt for any other string.
NotAnInt == -1
IntOf(s) == IF \E n \in 0..99 : ToString(n) = s
            THEN CHOOSE n \in 0..99 : ToString(n) = s
            ELSE NotAnInt

\* A component version is the sequence of its dash-separated parts, each the
\* sequence of its dot-separated fields: 'Aboot-norcal6-4.0.6-3255441' is
\* << <<"Aboot">>, <<"norcal6">>, <<"4", "0", "6">>, <<"3255441">> >>.
AbootRelease(fields) == << <<"Aboot">>, <<"norcal6">>, fields, <<"3255441">> >>
AbootReleases ==
    {AbootRelease(f) : f \in {<<"4", "0", "6">>, <<"4", "0", "7">>, <<"4", "1", "0">>,
                              <<"4", "1", "1">>, <<"6", "0", "8">>, <<"6", "0", "9">>,
                              <<"6", "1", "6">>, <<"6", "1", "7">>, <<"8", "0", "0">>,
                              <<"6", "1", "7rc1">>}}
    \cup {<< <<"">> >>}
Component(name, version) == [name |-> name, version |-> version]
ComponentLists ==
    {<<>>, <<Component("scd", << <<"1">> >>)>>} \cup
    {<<Component("scd", << <<"1">> >>), Component("Aboot", v)>> : v \in AbootReleases}

ModelNames ==
    {base \o suffix :
        base \in {<<"DCS", "7050TX", "64">>, <<"DCS", "7280SR2K", "48C6", "M">>,
                  <<"DCS", "7280CR3", "32P4">>},
        suffix \in {<<>>, <<"F">>, <<"R">>, <<"M", "F">>, <<"SSD", "R">>}}

FieldNoticeResponses ==
    {[errors |-> "not supported"]} \cup
    {[modelName |-> m] : m \in ModelNames} \cup
    {[modelName |-> m, details |-> [components |-> c]] : m \in ModelNames, c \in ComponentLists}

verify_field_notice_44_resolution_call ==
    /\ Enter("verify_field_notice_44_resolution", NoArgs)
    /\ Begin("verify_field_notice_44_resolution")

verify_field_notice_44_resolution_collect ==
    /\ pc = "collect" /\ test = "verify_field_notice_44_resolution"
    /\ runCmds(<<"show version detail">>, "json", FieldNoticeResponses, SoftwareCaught)

\* for component in components: if component['name'] == 'Aboot':
\*     aboot_version = component['version'].split('-')[2]
\* The local is None while unbound; an Aboot version of fewer than three parts
\* raises IndexError.
RECURSIVE aboot_loop(_, _, _)
aboot_loop(components, i, aboot_version) ==
    IF i > Len(components) THEN [exc |-> NoExc, aboot_version |-> aboot_version]
    ELSE IF components[i].name = "Aboot"
    THEN IF Len(components[i].version) < 3
         THEN [exc |-> IndexError, aboot_version |-> aboot_version]
         ELSE aboot_loop(components, i + 1, Some(components[i].version[3]))
    ELSE aboot_loop(components, i + 1, aboot_version)

\* Lines 195-205: the model test, the component loop and `result.result = 'success'`.
verify_field_notice_44_resolution_model ==
    /\ pc = "verify" /\ test = "verify_field_notice_44_resolution"
    /\ IF "modelName" \notin DOMAIN response
       THEN Except(result, KeyError("modelName"), SoftwareCaught) /\ UNCHANGED locals
       ELSE LET model == strip_variants(response.modelName, 1)
                r1 == IF model \notin devices
                      THEN append_message([result EXCEPT !.result = "unset"],
                                          "device is not impacted by FN044")
                      ELSE result
            IN IF "details" \notin DOMAIN response
               THEN Except(r1, KeyError("details"), SoftwareCaught) /\ UNCHANGED locals
               ELSE LET loop == aboot_loop(response.details.components, 1, None)
                    IN IF loop.exc /= NoExc
                       THEN Except(r1, loop.exc, SoftwareCaught) /\ UNCHANGED locals
                       ELSE /\ result' = [r1 EXCEPT !.result = "success"]
                            /\ locals' = [aboot_version |-> loop.aboot_version]
                            /\ pc' = "aboot"
                            /\ UNCHANGED <<returned, raised>>
    /\ UNCHANGED <<test, args, response, rpcs, ran>>

\* aboot_version.startswith(prefix) and int(aboot_version.split('.')[2]) < minimum,
\* for a prefix 'a.b.': [hit |-> ..., exc |-> ...]
aboot_older(fields, a, b, minimum) ==
    IF ~(Len(fields) >= 3 /\ fields[1] = a /\ fields[2] = b)
    THEN [hit |-> FALSE, exc |-> NoExc]
    ELSE IF IntOf(fields[3]) = NotAnInt
    THEN [hit |-> FALSE, exc |-> ValueError(fields[3])]
    ELSE [hit |-> IntOf(fields[3]) < minimum, exc |-> NoExc]

\* The if/elif chain of lines 206-221 over the four fixed releases.
RECURSIVE aboot_chain(_, _, _)
aboot_chain(r, fields, fixes) ==
    IF fixes = <<>> THEN Ok(r)
    ELSE LET t == aboot_older(fields, fixes[1][1], fixes[1][2], fixes[1][3])
         IN IF t.exc /= NoExc THEN Exc(r, t.exc)
            ELSE IF t.hit
            THEN Ok(append_message([r EXCEPT !.result = "failure"],
                    "device is running incorrect version of aboot (" \o Join(fields, ".") \o ")"))
            ELSE aboot_chain(r, fields, Tail(fixes))

AbootFixes == << <<"4", "0", 7>>, <<"4", "1", 1>>, <<"6", "0", 9>>, <<"6", "1", 7>> >>

verify_field_notice_44_resolution_aboot_body(r, aboot_version) ==
    IF aboot_version = None THEN Exc(r, UnboundLocalError("aboot_version"))
    ELSE aboot_chain(r, aboot_version[1], AbootFixes)

\* Lines 206-225.
verify_field_notice_44_resolution_aboot ==
    /\ pc = "aboot" /\ test = "verify_field_notice_44_resolution"
    /\ Finish(verify_field_notice_44_resolution_aboot_body(result, locals.aboot_version),
              SoftwareCaught)
    /\ UNCHANGED <<test, args, response, locals, rpcs, ran>>

(* verify_eos_extensions *)
\* The function builds no TestResult: it hands back None, True or False.
ReturnValue(v) ==
    /\ pc' = "done"
    /\ result' = result
    /\ returned' = v
    /\ raised' = NoExc

ExtensionNames == {"a.rpm", "b.swix"}
ExtensionStatuses == {"installed", "notInstalled"}
\* list.sort() orders the names; all that the comparison of the two sorted
\* lists needs is that both are put in the same order.
ExtensionRank(name) == IF name = "a.rpm" THEN 1 ELSE 2

\* Every output is written with the command that produced it, so that the
\* position of an output in the response can be compared with the position of
\* its command in the request.
ShowExtensionsOutputs ==
    {[command |-> "show extensions", errors |-> "not supported"]} \cup
    {[command |-> "show extensions", extensions |-> e] :
        e \in UNION {[s -> [status : ExtensionStatuses]] : s \in SUBSET ExtensionNames}}

\* A line of 'show boot-extensions': the characters kept as tokens, a name and
\* the newline that may follow it.
BootLines == {<<"a.rpm", "\n">>, <<"b.swix">>, <<"\n">>}
ShowBootExtensionsOutputs ==
    {[command |-> "show boot-extensions", errors |-> "not supported"]} \cup
    {[command |-> "show boot-extensions", extensions |-> l] :
        l \in {<<>>} \cup {<<x>> : x \in BootLines} \cup {<<x, y>> : x, y \in BootLines}}

OutputsOf(command) ==
    IF command = "show extensions" THEN ShowExtensionsOutputs ELSE ShowBootExtensionsOutputs

\* The session answers a batch with one output per command, in request order.
BatchResponses(cmds) ==
    {[batch |-> b] : b \in {c \in [DOMAIN cmds -> ShowExtensionsOutputs \cup ShowBootExtensionsOutputs] :
                                \A i \in DOMAIN cmds : c[i] \in OutputsOf(cmds[i])}}

\* extension.strip('\n')
RECURSIVE strip_newline(_)
strip_newline(line) ==
    IF line = <<>> THEN line
    ELSE IF Head(line) = "\n" THEN strip_newline(Tail(line))
    ELSE IF line[Len(line)] = "\n" THEN strip_newline(SubSeq(line, 1, Len(line) - 1))
    ELSE line

\* list.append followed by list.sort(): the sorted list with x added
RECURSIVE sorted_insert(_, _)
sorted_insert(l, x) ==
    IF l = <<>> THEN <<x>>
    ELSE IF ExtensionRank(x) <= ExtensionRank(Head(l)) THEN <<x>> \o l
    ELSE <<Head(l)>> \o sorted_insert(Tail(l), x)

RECURSIVE installed_extensions_of(_, _)
installed_extensions_of(extensions, todo) ==
    IF todo = {} THEN <<>>
    ELSE LET extension == CHOOSE x \in todo : TRUE
             rest == installed_extensions_of(extensions, todo \ {extension})
         IN IF extensions[extension].status = "installed"
            THEN sorted_insert(rest, extension)
            ELSE rest

RECURSIVE boot_extensions_of(_)
boot_extensions_of(lines) ==
    IF lines = <<>> THEN <<>>
    ELSE LET extension == Join(strip_newline(Head(lines)), "")
             rest == boot_extensions_of(Tail(lines))
         IN IF extension = "" THEN rest ELSE sorted_insert(rest, extension)

verify_eos_extensions_call ==
    /\ Enter("verify_eos_extensions", NoArgs)
    /\ pc' = "collect"
    /\ UNCHANGED <<result, returned, raised>>

\* Line 101: the two commands in one call; line 102: only AppError is caught,
\* and the function returns None.
verify_eos_extensions_collect_reversed ==
    /\ pc = "collect" /\ test = "verify_eos_extensions"
    /\ LET cmds == <<"show boot-extensions", "show extensions">>
       IN /\ rpcs' = Append(rpcs, Rpc(cmds, "json"))
          /\ \/ \E e \in Fails(TransportErrors) :
                  /\ IF e.type = "AppError" THEN ReturnValue("None") ELSE Throw(result, e)
                  /\ response' = Raised(e)
             \/ \E r \in Answers(BatchResponses(cmds)) :
                  /\ response' = r
                  /\ pc' = "verify"
                  /\ UNCHANGED <<result, returned, raised>>
    /\ UNCHANGED <<test, args, locals, ran>>

verify_eos_extensions_collect ==
    /\ pc = "collect" /\ test = "verify_eos_extensions"
    /\ LET cmds == <<"show extensions", "show boot-extensions">>
       IN /\ rpcs' = Append(rpcs, Rpc(cmds, "json"))
          /\ \/ \E e \in Fails(TransportErrors) :
                  /\ IF e.type = "AppError" THEN ReturnValue("None") ELSE Throw(result, e)
                  /\ response' = Raised(e)
             \/ \E r \in Answers(BatchResponses(cmds)) :
                  /\ response' = r
                  /\ pc' = "verify"
                  /\ UNCHANGED <<result, returned, raised>>
    /\ UNCHANGED <<test, args, locals, ran>>

\* Lines 104-122: response[0] is read as the output of 'show extensions' (a
\* dict of extensions), response[1] as that of 'show boot-extensions' (a list).
\* A list at index 0 makes the lookup by name fail with a TypeError, which no
\* except clause names.
verify_eos_extensions_verify ==
    /\ pc = "verify" /\ test = "verify_eos_extensions"
    /\ LET first == response.batch[1]
           second == response.batch[2]
       IN /\ locals' = [consumed |-> <<first.command, second.command>>]
          /\ IF "extensions" \notin DOMAIN first THEN ReturnValue("None")
             ELSE IF first.command /= "show extensions"
             THEN Throw(result, TypeError("list indices must be integers or slices, not str"))
             ELSE IF "extensions" \notin DOMAIN second THEN ReturnValue("None")
             ELSE IF installed_extensions_of(first.extensions, DOMAIN first.extensions)
                        = boot_extensions_of(second.extensions)
             THEN ReturnValue("True")
             ELSE ReturnValue("False")
    /\ UNCHANGED <<test, args, response, rpcs, ran>>

-----------------------------------------------------------------------------
(* anta/tests/vxlan.py *)

VxlanCaught == {"AppError", "KeyError", "socket.timeout"}
LinkStates == {"up", "down"}

\* An entry of 'show interfaces description' carries lineProtocolStatus and
\* interfaceStatus; test fixtures written for the check spell the second key the
\* way the check reads it.
InterfaceEntries ==
    [lineProtocolStatus : LinkStates, interfaceStatus : LinkStates] \cup
    [lineProtocolStatus : LinkStates, intefraceStatus : LinkStates]

InterfaceDescriptions ==
    {[errors |-> "not supported"],
     [interfaceDescriptions |-> [Ethernet1 |-> [lineProtocolStatus |-> "up", interfaceStatus |-> "up"]]]}
    \cup {[interfaceDescriptions |-> [Vxlan1 |-> e]] : e \in InterfaceEntries}

verify_vxlan_call ==
    /\ Enter("verify_vxlan", NoArgs)
    /\ Begin("verify_vxlan")

verify_vxlan_collect ==
    /\ pc = "collect" /\ test = "verify_vxlan"
    /\ runCmds(<<"show interfaces description">>, "json", InterfaceDescriptions, VxlanCaught)

verify_vxlan_verify_body(r, resp) ==
    IF "interfaceDescriptions" \notin DOMAIN resp THEN Exc(r, KeyError("interfaceDescriptions"))
    ELSE LET response_data == resp.interfaceDescriptions
         IN IF "Vxlan1" \notin DOMAIN response_data
            THEN Ok(is_failure(r, "No interface VXLAN 1 detected."))
            ELSE IF "lineProtocolStatus" \notin DOMAIN response_data["Vxlan1"]
            THEN Exc(r, KeyError("lineProtocolStatus"))
            ELSE IF "intefraceStatus" \notin DOMAIN response_data["Vxlan1"]
            THEN Exc(r, KeyError("intefraceStatus"))
            ELSE LET protocol_status == response_data["Vxlan1"]["lineProtocolStatus"]
                     interface_status == response_data["Vxlan1"]["intefraceStatus"]
                 IN IF protocol_status = "up" /\ interface_status = "up"
                    THEN Ok(is_success(r))
                    ELSE Ok(append_message(r,
                            "Vxlan interface is " \o protocol_status \o "/" \o
                            interface_status \o "."))

verify_vxlan_verify ==
    /\ pc = "verify" /\ test = "verify_vxlan"
    /\ Finish(verify_vxlan_verify_body(result, response), VxlanCaught)
    /\ UNCHANGED <<test, args, response, locals, rpcs, ran>>

(* verify_vxlan_config_sanity *)
SanityCategories == {"localVtep", "mlag", "pd"}
ConfigSanityResponses ==
    {[errors |-> "not supported"]} \cup
    UNION {{[categories |-> c] : c \in [S -> [allCheckPass : BOOLEAN]]} :
            S \in SUBSET SanityCategories}

verify_vxlan_config_sanity_call ==
    /\ Enter("verify_vxlan_config_sanity", NoArgs)
    /\ Begin("verify_vxlan_config_sanity")

verify_vxlan_config_sanity_collect ==
    /\ pc = "collect" /\ test = "verify_vxlan_config_sanity"
    /\ runCmds(<<"show vxlan config-sanity">>, "json", ConfigSanityResponses, VxlanCaught)

verify_vxlan_config_sanity_verify_body(r, resp) ==
    IF "categories" \notin DOMAIN resp THEN Exc(r, KeyError("categories"))
    ELSE LET response_data == resp.categories
         IN IF DOMAIN response_data = {}
            THEN Ok(is_skipped(r, "Vxlan is not enabled on this device"))
            ELSE LET failed_categories ==
                        [c \in {k \in DOMAIN response_data :
                                    k \in {"localVtep", "mlag"} /\ ~response_data[k].allCheckPass}
                            |-> response_data[c]]
                 IN IF DOMAIN failed_categories /= {}
                    THEN Ok(is_failure(r,
                            FormatDict("Vxlan config sanity check is not passing: ",
                                       failed_categories)))
                    ELSE Ok(is_success(r))

verify_vxlan_config_sanity_verify ==
    /\ pc = "verify" /\ test = "verify_vxlan_config_sanity"
    /\ Finish(verify_vxlan_config_sanity_verify_body(result, response), VxlanCaught)
    /\ UNCHANGED <<test, args, response, locals, rpcs, ran>>

-----------------------------------------------------------------------------
(* anta/tests/configuration.py: checks written as AntaTest classes.  The base
   class is outside the files at hand: construction sets up the TestResult,
   the anta_test wrapper collects the output of each command through
   device.session.cli and then runs test(); whatever either raises becomes the
   check's error result, with the message "<exception type> (<str(e)>)". *)

HTTPError == [type |-> "HTTPError", code |-> 0, msg |-> "dummy"]
AssertionError == [type |-> "AssertionError", code |-> 0, msg |-> ""]
CliErrors == {HTTPError, SocketTimeout, ConnectionRefused, KeyError("dummy")}

exc_to_str(e) == e.type \o " (" \o Str(e) \o ")"

\* AntaTest.__init__ and the start of the anta_test wrapper
AntaTest_call(name) ==
    /\ Enter(name, NoArgs)
    /\ Begin(name)

\* AntaTest.collect(): one call of device.session.cli for the check's command;
\* the output is stored on instance_commands[0].
AntaTest_collect(command, ofmt, outputs) ==
    /\ rpcs' = Append(rpcs, [cmds |-> <<command>>, ofmt |-> ofmt, revision |-> "latest"])
    /\ \/ \E e \in Fails(CliErrors) :
            /\ Return(is_error(result, exc_to_str(e)))
            /\ response' = Raised(e)
       \/ \E o \in Answers(outputs) :
            /\ response' = o
            /\ pc' = "verify"
            /\ UNCHANGED <<result, returned, raised>>
    /\ UNCHANGED <<test, args, locals, ran>>

\* the wrapper around test(): an exception becomes the error result
anta_test(o) ==
    IF o.kind = "ok" THEN Return(o.result) ELSE Return(is_error(o.result, exc_to_str(o.exc)))

(* VerifyZeroTouch *)
\* instance_commands[0].output: the list of responses, or None.
NoOutput == [kind |-> "None"]
ListOutput(l) == [kind |-> "list", value |-> l]
TextOutput(t) == [kind |-> "str", value |-> t]

\* A response that is text rather than a dict is written [str |-> text].
ZeroTouchOutputs ==
    {NoOutput, ListOutput(<<[str |-> ""]>>)} \cup
    {ListOutput(<<d>>) : d \in {[mode |-> "disabled"], [mode |-> "enabled"],
                                [mode |-> "active"], [errors |-> "not supported"]}}

VerifyZeroTouch_call ==
    /\ pc = "idle"
    /\ AntaTest_call("verify_zerotouch")

VerifyZeroTouch_collect ==
    /\ pc = "collect" /\ test = "verify_zerotouch"
    /\ AntaTest_collect("show zerotouch", "json", ZeroTouchOutputs)

VerifyZeroTouch_test_body_enabled_only(r, output) ==
    IF output.kind = "None" THEN Exc(r, TypeError("'NoneType' object is not subscriptable"))
    ELSE LET command_output == output.value[1]
         IN IF "str" \in DOMAIN command_output THEN Exc(r, AssertionError)
            ELSE IF "mode" \notin DOMAIN command_output THEN Exc(r, KeyError("mode"))
            ELSE IF command_output["mode"] /= "enabled"
            THEN Ok(is_success(r))
            ELSE Ok(is_failure(r, "ZTP is NOT disabled"))

VerifyZeroTouch_test_body(r, output) ==
    IF output.kind = "None" THEN Exc(r, TypeError("'NoneType' object is not subscriptable"))
    ELSE LET command_output == output.value[1]
         IN IF "str" \in DOMAIN command_output THEN Exc(r, AssertionError)
            ELSE IF "mode" \notin DOMAIN command_output THEN Exc(r, KeyError("mode"))
            ELSE IF command_output["mode"] = "disabled"
            THEN Ok(is_success(r))
            ELSE Ok(is_failure(r, "ZTP is NOT disabled"))

VerifyZeroTouch_test ==
    /\ pc = "verify" /\ test = "verify_zerotouch"
    /\ anta_test(VerifyZeroTouch_test_body(result, response))
    /\ UNCHANGED <<test, args, response, locals, rpcs, ran>>

(* VerifyRunningConfigDiffs *)
\* A text is the sequence of its characters; a diff is made of these.
DiffChars == {"+", "\n"}
RECURSIVE Texts(_)
Texts(n) == IF n = 0 THEN {<<>>}
            ELSE Texts(n - 1) \cup {Append(t, c) : t \in {u \in Texts(n - 1) : Len(u) = n - 1},
                                                   c \in DiffChars}

RunningConfigDiffsOutputs ==
    {NoOutput} \cup
    {ListOutput(l) : l \in {<<>>, <<"">>, <<"", "">>, <<"blah">>, <<"", "blah">>}} \cup
    {TextOutput(t) : t \in Texts(MaxText)}

VerifyRunningConfigDiffs_call ==
    /\ pc = "idle"
    /\ AntaTest_call("verify_running_config_diffs")

VerifyRunningConfigDiffs_collect ==
    /\ pc = "collect" /\ test = "verify_running_config_diffs"
    /\ AntaTest_collect("show running-config diffs", "text", RunningConfigDiffsOutputs)

\* Lines 54-62: the three-way branch on the output; the last branch goes on to
\* the loop over the output.
VerifyRunningConfigDiffs_test ==
    /\ pc = "verify" /\ test = "verify_running_config_diffs"
    /\ LET command_output == response
       IN IF command_output.kind = "None"
          THEN Return(is_success(result)) /\ UNCHANGED locals
          ELSE IF command_output.kind = "list"
          THEN /\ IF ~(\E i \in DOMAIN command_output.value : command_output.value[i] /= "")
                  THEN Return(is_success(result))
                  ELSE Return(result)
               /\ UNCHANGED locals
          ELSE /\ result' = is_failure(result, "")
               /\ locals' = [todo |-> command_output.value]
               /\ pc' = "lines"
               /\ UNCHANGED <<returned, raised>>
    /\ UNCHANGED <<test, args, response, rpcs, ran>>

\* Lines 63-64: `for line in command_output: self.result.is_failure(line)`, one
\* iteration a step; the check returns when the output is exhausted.
VerifyRunningConfigDiffs_lines ==
    /\ pc = "lines" /\ test = "verify_running_config_diffs"
    /\ IF locals.todo = <<>>
       THEN Return(result) /\ UNCHANGED locals
       ELSE /\ result' = is_failure(result, Head(locals.todo))
            /\ locals' = [todo |-> Tail(locals.todo)]
            /\ UNCHANGED <<pc, returned, raised>>
    /\ UNCHANGED <<test, args, response, rpcs, ran>>

-----------------------------------------------------------------------------
(* anta/cli/debug/commands.py: the ad hoc commands of the CLI.  Each is a
   process of its own: it builds the commands, has them collected and prints
   what instance_commands holds.  RunArbitraryCommand, RunArbitraryTemplateCommand
   and collect() are outside the files at hand: collect() requests the output
   of every command of instance_commands, in order, and stores it on the
   command; a command whose call fails keeps the output it had. *)

CliCommands == {"show version", "show clock"}
OutputFormats == {"json", "text"}
ApiVersions == {"latest", "1"}

AntaTestCommand(command, ofmt, version) ==
    [command |-> command, ofmt |-> ofmt, version |-> version, output |-> None, assigned |-> 0]

\* What the device prints for a command, written with the command it answers.
CommandOutput(c) == [command |-> c.command, ofmt |-> c.ofmt]

\* collect(): `failed` are the positions whose call fails.  `assigned` counts
\* the assignments of a command's output.
collect(instance_commands, failed) ==
    [i \in DOMAIN instance_commands |->
        IF i \in failed THEN instance_commands[i]
        ELSE [instance_commands[i] EXCEPT !.output = Some(CommandOutput(instance_commands[i])),
                                          !.assigned = @ + 1]]

\* the calls collect() makes on the session, one per command
RECURSIVE cli_calls(_)
cli_calls(instance_commands) ==
    IF instance_commands = <<>> THEN <<>>
    ELSE LET c == Head(instance_commands)
         IN <<[cmds |-> <<c.command>>, ofmt |-> c.ofmt, revision |-> c.version]>>
                \o cli_calls(Tail(instance_commands))

\* A CLI command starts in a process where no check has run.
Invoke(name) ==
    /\ pc = "idle" /\ ran = {} /\ rpcs = <<>>
    /\ test' = name
    /\ ran' = {[test |-> name, calls |-> 1, outcome |-> None]}
    /\ UNCHANGED <<args, response, result, returned, rpcs>>

\* The process is over.
Exit(e) ==
    /\ pc' = "exit"
    /\ raised' = e
    /\ UNCHANGED <<test, args, response, result, returned, rpcs, ran>>

(* run_cmd *)
\* Lines 47-48: the command of the options is the only one of instance_commands.
run_cmd_call ==
    /\ Invoke("run_cmd")
    /\ \E command \in CliCommands, ofmt \in OutputFormats, api_version \in ApiVersions :
            locals' = [instance_commands |-> <<AntaTestCommand(command, ofmt, api_version)>>,
                       console |-> <<>>]
    /\ pc' = "collect"
    /\ raised' = NoExc

\* Line 49: asyncio.run(run_command.collect())
run_cmd_collect ==
    /\ pc = "collect" /\ test = "run_cmd"
    /\ \E failed \in SUBSET DOMAIN locals.instance_commands :
            locals' = [locals EXCEPT !.instance_commands = collect(@, failed)]
    /\ rpcs' = rpcs \o cli_calls(locals.instance_commands)
    /\ pc' = "print"
    /\ UNCHANGED <<test, args, response, result, returned, raised, ran>>

\* Lines 50-51: result = run_command.instance_commands[0].output; console.print(result)
run_cmd_print ==
    /\ pc = "print" /\ test = "run_cmd"
    /\ locals' = [locals EXCEPT !.console = Append(@, locals.instance_commands[1].output)]
    /\ Exit(NoExc)

(* run_template *)
\* --params: a JSON text; json.loads gives a list of parameter sets, or a value
\* that is not a list.
ParameterSets == {[vlan |-> 10], [vlan |-> 20]}
RECURSIVE ParameterLists(_)
ParameterLists(n) ==
    IF n = 0 THEN {<<>>}
    ELSE ParameterLists(n - 1) \cup
         {Append(l, p) : l \in {m \in ParameterLists(n - 1) : Len(m) = n - 1}, p \in ParameterSets}

\* RunArbitraryTemplateCommand(device, params): one command per parameter set,
\* the literal template when there is none.
RenderedCommands(params) ==
    IF params = <<>> THEN <<AntaTestCommand("show vlan", "json", "latest")>>
    ELSE [i \in DOMAIN params |->
            AntaTestCommand("show vlan " \o ToString(params[i].vlan), "json", "latest")]

\* Lines 76-83: params is parsed and must be a list; the commands are rendered.
run_template_call ==
    /\ Invoke("run_template")
    /\ \/ /\ locals' = NoLocals
          /\ pc' = "exit"
          /\ raised' = AssertionError
       \/ \E params \in ParameterLists(MaxParams) :
            /\ locals' = [instance_commands |-> RenderedCommands(params),
                          console |-> <<>>, cmd |-> 1]
            /\ pc' = "loop"
            /\ raised' = NoExc

\* Lines 84-88, one iteration of `for cmd in run_command1.instance_commands` a
\* step: each iteration awaits collect(), which takes no command and collects
\* them all; after the loop instance_commands is printed.
run_template_internal_run ==
    /\ pc = "loop" /\ test = "run_template"
    /\ IF locals.cmd <= Len(locals.instance_commands)
       THEN /\ \E failed \in SUBSET DOMAIN locals.instance_commands :
                    locals' = [locals EXCEPT !.instance_commands = collect(@, failed),
                                             !.cmd = @ + 1]
            /\ rpcs' = rpcs \o cli_calls(locals.instance_commands)
            /\ UNCHANGED <<pc, raised>>
       ELSE /\ locals' = [locals EXCEPT !.console = Append(@, locals.instance_commands)]
            /\ pc' = "exit"
            /\ UNCHANGED <<raised, rpcs>>
    /\ UNCHANGED <<test, args, response, result, returned, ran>>

-----------------------------------------------------------------------------
(* The call is over: its frame is gone, the caller holds the TestResult (or the
   exception) and may call the next check of the run.  The run keeps what was
   sent to the device and which checks ran. *)
Idle ==
    /\ pc = "done"
    /\ pc' = "idle"
    /\ test' = ""
    /\ args' = NoArgs
    /\ response' = NoResponse
    /\ locals' = NoLocals
    /\ result' = TestResult("")
    /\ returned' = "pending"
    /\ raised' = NoExc
    /\ rpcs' = rpcs

Collected ==
    /\ Idle
    /\ ran' = ran

\* The caller keeps the outcome of the call, to call the check again.
Outcome == [args |-> args, response |-> response, result |-> result,
            returned |-> returned, raised |-> raised]
Kept ==
    /\ Idle
    /\ ran' = {IF h.test = test THEN [h EXCEPT !.outcome = Some(Outcome)] ELSE h : h \in ran}

Init ==
    /\ pc = "idle"
    /\ test = ""
    /\ args = NoArgs
    /\ response = NoResponse
    /\ locals = NoLocals
    /\ result = TestResult("")
    /\ returned = "pending"
    /\ raised = NoExc
    /\ rpcs = <<>>
    /\ ran = {}

Next ==
    \/ verify_bgp_ipv4_unicast_state_call
    \/ verify_bgp_ipv4_unicast_state_collect
    \/ verify_bgp_ipv4_unicast_state_verify
    \/ verify_bgp_ipv6_unicast_state_call
    \/ verify_bgp_ipv6_unicast_state_collect
    \/ verify_bgp_ipv6_unicast_state_verify
    \/ verify_bgp_ipv4_unicast_count_call
    \/ verify_bgp_ipv4_unicast_count_collect
    \/ verify_bgp_ipv4_unicast_count_verify
    \/ verify_bgp_evpn_state_call
    \/ verify_bgp_evpn_state_collect
    \/ verify_bgp_evpn_state_verify
    \/ verify_bgp_evpn_count_call
    \/ verify_bgp_evpn_count_collect
    \/ verify_bgp_evpn_count_verify
    \/ verify_bgp_rtc_state_call
    \/ verify_bgp_rtc_state_collect
    \/ verify_bgp_rtc_state_verify
    \/ verify_bgp_rtc_count_call
    \/ verify_bgp_rtc_count_collect
    \/ verify_bgp_rtc_count_verify
    \/ verify_eos_version_call
    \/ verify_eos_version_collect
    \/ verify_eos_version_verify
    \/ verify_terminattr_version_call
    \/ verify_terminattr_version_collect
    \/ verify_terminattr_version_verify
    \/ verify_field_notice_44_resolution_call
    \/ verify_field_notice_44_resolution_collect
    \/ verify_field_notice_44_resolution_model
    \/ verify_field_notice_44_resolution_aboot
    \/ verify_eos_extensions_call
    \/ verify_eos_extensions_collect
    \/ verify_eos_extensions_verify
    \/ verify_vxlan_call
    \/ verify_vxlan_collect
    \/ verify_vxlan_verify
    \/ verify_vxlan_config_sanity_call
    \/ verify_vxlan_config_sanity_collect
    \/ verify_vxlan_config_sanity_verify
    \/ VerifyZeroTouch_call
    \/ VerifyZeroTouch_collect
    \/ VerifyZeroTouch_test
    \/ VerifyRunningConfigDiffs_call
    \/ VerifyRunningConfigDiffs_collect
    \/ VerifyRunningConfigDiffs_test
    \/ VerifyRunningConfigDiffs_lines
    \/ run_cmd_call
    \/ run_cmd_collect
    \/ run_cmd_print
    \/ run_template_call
    \/ run_template_internal_run

\* One call of one check on a device.
Spec == Init /\ [][Next]_vars

\* A run: up to MaxChecks checks called one after the other on the device.
NextRun == Next \/ Collected
SpecRun == Init /\ [][NextRun]_vars

\* A check called MaxRuns times against the device, the outcome of each call
\* kept by the caller.
NextRerun == Next \/ Kept
SpecRerun == Init /\ [][NextRerun]_vars

-----------------------------------------------------------------------------
(* Properties *)

\* The call is over and the check handed its TestResult back.
Completed == pc = "done" /\ returned = "TestResult"

\* The RPC was answered (the session did not raise).
Answered == response /= NoResponse /\ "exception" \notin DOMAIN response

\* The session raised e instead of answering.
SessionRaised(e) == response = Raised(e)

\* The checks that take a required parameter, and whether the call left it out.
CountChecks == {"verify_bgp_ipv4_unicast_count", "verify_bgp_evpn_count", "verify_bgp_rtc_count"}
VersionChecks == {"verify_eos_version", "verify_terminattr_version"}
ParameterAbsent ==
    \/ test \in CountChecks /\ args.number = None
    \/ test = "verify_bgp_ipv4_unicast_count" /\ args.vrf = None
    \/ test \in VersionChecks /\ args.versions = None

\* C1: once the status of the TestResult of a check run is skipped, success,
\* failure or error, no later step of that run changes it.
C1_TerminalIsAbsorbing ==
    [][(pc /= "idle" /\ result.result \in Terminal) => result'.result = result.result]_vars

\* C2: within one run every (command, format, revision) is sent to the device
\* once: the RPCs sent are as many as the distinct commands the checks need.
RpcKeys(rpc) == {<<rpc.cmds[i], rpc.ofmt, rpc.revision>> : i \in DOMAIN rpc.cmds}
C2_OneRpcPerCommand ==
    \A i, j \in DOMAIN rpcs : i /= j => RpcKeys(rpcs[i]) \cap RpcKeys(rpcs[j]) = {}

\* C3: a transport timeout during collection ends the check with status error,
\* the single message str(cause), and no verdict of the verification logic.
C3_TimeoutIsError ==
    (pc = "done" /\ SessionRaised(SocketTimeout)) =>
        /\ returned = "TestResult"
        /\ result.result = "error"
        /\ result.messages = <<Str(SocketTimeout)>>

\* C4: no check ends by raising an exception to its caller.
C4_NothingEscapes == raised = NoExc

\* C5: a check called without its required parameter ends skipped, with a message.
C5_AbsentParameterIsSkipped ==
    (pc = "done" /\ ParameterAbsent) =>
        /\ returned = "TestResult"
        /\ result.result = "skipped"
        /\ Len(result.messages) >= 1

\* C6: a check called without its required parameter sends no command.
C6_SkipBeforeCollect == ParameterAbsent => rpcs = <<>>

C6_Witness ==
    /\ pc = "done" /\ test = "verify_bgp_evpn_count" /\ args.number = None
    /\ result.result = "skipped"
    /\ result.messages = <<"verify_bgp_evpn_count could not run because number was not supplied.">>
    /\ rpcs = <<>>

\* C7: a check that collected its response and went through verification ends
\* with status success or failure, never unset.
C7_VerifiedIsDecided ==
    (Completed /\ Answered /\ result.result \notin {"error", "skipped"}) =>
        result.result \in {"success", "failure"}

\* The peers of the VRF a count check looks at, when the response has them.
CountVrf == IF test = "verify_bgp_ipv4_unicast_count" THEN args.vrf[1] ELSE "default"
CountAnswered ==
    /\ pc = "done" /\ test \in CountChecks /\ Answered
    /\ "vrfs" \in DOMAIN response /\ CountVrf \in DOMAIN response.vrfs
CountPeers == response.vrfs[CountVrf].peers
Healthy(e) == e.peerState = "Established" /\ e.inMsgQueue = 0 /\ e.outMsgQueue = 0

\* C8: verify_bgp_ipv4_unicast_count with expected number N and M peers in the
\* VRF: success when M = N and every peer is Established with empty queues;
\* failure with 'Expecting N BGP peer in vrf <vrf> and got M' when M /= N.
C8_PeerCount ==
    (CountAnswered /\ test = "verify_bgp_ipv4_unicast_count") =>
        LET N == args.number[1]
            M == Cardinality(DOMAIN CountPeers)
        IN /\ (M = N /\ \A p \in DOMAIN CountPeers : Healthy(CountPeers[p]))
                => result.result = "success"
           /\ M /= N =>
                /\ result.result = "failure"
                /\ ("Expecting " \o ToString(N) \o " BGP peer in vrf " \o CountVrf \o
                    " and got " \o ToString(M)) \in Range(result.messages)

\* C9: a BGP count check is a success only when the peer count is the expected
\* number and every peer is Established (for IPv4 unicast, with empty queues).
C9_SuccessNeedsAll ==
    (CountAnswered /\ result.result = "success") =>
        /\ Cardinality(DOMAIN CountPeers) = args.number[1]
        /\ \A p \in DOMAIN CountPeers : CountPeers[p].peerState = "Established"
        /\ test = "verify_bgp_ipv4_unicast_count" =>
                \A p \in DOMAIN CountPeers : Healthy(CountPeers[p])

\* C10: a unicast state check over a response is a success iff every peer of
\* every VRF is Established with both queues empty; otherwise it is a failure
\* whose message lists exactly the offending (VRF, peer) pairs, each with its
\* peerState, inMsgQueue and outMsgQueue.
StateChecks == {"verify_bgp_ipv4_unicast_state", "verify_bgp_ipv6_unicast_state"}
Offending(bgp_vrfs) ==
    {vp \in PeerKeys(bgp_vrfs) : ~Healthy(bgp_vrfs[vp[1]].peers[vp[2]])}
OffendingDict(bgp_vrfs) ==
    [v \in {vp[1] : vp \in Offending(bgp_vrfs)} |->
        [p \in {q \in PeerNames : <<v, q>> \in Offending(bgp_vrfs)} |-> bgp_vrfs[v].peers[p]]]
PeerStateChecks == StateChecks \cup {"verify_bgp_evpn_state", "verify_bgp_rtc_state"}
Discrepancies ==
    IF test \in StateChecks THEN Offending(response.vrfs)
    ELSE {<<"default", p>> : p \in non_established_peers_of(response.vrfs["default"].peers)}

\* C11: a failure carries one message per discrepancy: a failure result never
\* has an empty message list, and a peer state check that fails has as many
\* messages as the response has peers at fault.
C11_MessagePerDiscrepancy ==
    (Completed /\ Answered /\ result.result = "failure") =>
        /\ result.messages /= <<>>
        /\ (test \in PeerStateChecks /\ "vrfs" \in DOMAIN response
                /\ (test \in StateChecks \/ "default" \in DOMAIN response.vrfs))
            => Len(result.messages) = Cardinality(Discrepancies)

\* C12: VerifyZeroTouch ends with success and no message when mode is
\* 'disabled', with failure and exactly 'ZTP is NOT disabled' for any other
\* mode, and with error and exactly one message naming the cause when the
\* collection fails or the response has no 'mode'.
ZeroTouchDict == Answered /\ response.kind = "list" /\ "str" \notin DOMAIN response.value[1]
C12_ZeroTouch ==
    (pc = "done" /\ test = "verify_zerotouch") =>
        /\ returned = "TestResult"
        /\ ~Answered =>
                /\ result.result = "error"
                /\ result.messages = <<exc_to_str(response.exception)>>
        /\ (ZeroTouchDict /\ "mode" \in DOMAIN response.value[1]) =>
                IF response.value[1]["mode"] = "disabled"
                THEN result.result = "success" /\ result.messages = <<>>
                ELSE result.result = "failure" /\ result.messages = <<"ZTP is NOT disabled">>
        /\ (ZeroTouchDict /\ "mode" \notin DOMAIN response.value[1]) =>
                /\ result.result = "error"
                /\ result.messages = <<exc_to_str(KeyError("mode"))>>
        /\ (Answered /\ ~ZeroTouchDict) =>
                result.result = "error" /\ Len(result.messages) = 1

C12_Witness ==
    /\ pc = "done" /\ test = "verify_zerotouch"
    /\ response = ListOutput(<<[mode |-> "active"]>>)
    /\ result.result = "failure"
    /\ result.messages = <<"ZTP is NOT disabled">>

\* C13: the i-th result a batch hands back is the output of the i-th command
\* submitted: verify_eos_extensions reads the output of 'show extensions' at
\* index 0 and that of 'show boot-extensions' at index 1; every command of
\* instance_commands holds the output of its own command, and run_cmd prints
\* the output of the command it submitted.
C13_Ordering ==
    /\ (test = "verify_eos_extensions" /\ "consumed" \in DOMAIN locals) =>
            /\ locals.consumed = rpcs[Len(rpcs)].cmds
            /\ locals.consumed = <<"show extensions", "show boot-extensions">>
    /\ "instance_commands" \in DOMAIN locals =>
            \A i \in DOMAIN locals.instance_commands :
                LET c == locals.instance_commands[i]
                IN c.output /= None => c.output[1].command = c.command
    /\ (pc = "exit" /\ test = "run_cmd") =>
            /\ Len(locals.console) = 1
            /\ locals.console[1] = locals.instance_commands[1].output
            /\ locals.console[1] /= None =>
                    /\ locals.console[1][1].command = rpcs[1].cmds[1]
                    /\ locals.console[1][1].ofmt = rpcs[1].ofmt

C13_Witness ==
    /\ pc = "done" /\ test = "verify_eos_extensions"
    /\ returned = "True"
    /\ locals = [consumed |-> <<"show extensions", "show boot-extensions">>]
    /\ DOMAIN response.batch[1].extensions = ExtensionNames
    /\ Len(response.batch[2].extensions) = 2

\* C14: the output of a command is assigned at most once, run_template with N
\* commands making N assignments in all.
C14_OutputAssignedOnce ==
    "instance_commands" \in DOMAIN locals =>
        \A i \in DOMAIN locals.instance_commands : locals.instance_commands[i].assigned <= 1

\* C15: a call of a check hands back exactly one TestResult, with the host of
\* the device and the name of the check: never None, a boolean or no value.
C15_OneTestResult ==
    pc = "done" =>
        /\ returned = "TestResult"
        /\ result.host = Host
        /\ result.test = test

\* The check was stopped by the check_bgp_family_enable precondition: the
\* address family is not configured on the device.
FamilyDisabled(r) ==
    r.result = "skipped" /\ r.messages /= <<>> /\
    r.messages[1] \in {"no BGP " \o f \o " peer is configured" : f \in {"ipv4", "ipv6", "evpn", "rtc"}}

C17_AppendOnly ==
    [][pc /= "done" =>
        /\ Len(result'.messages) >= Len(result.messages)
        /\ SubSeq(result'.messages, 1, Len(result.messages)) = result.messages]_vars

\* Messages added one by one to a result that is already a failure.
C17_Witness ==
    /\ pc = "done" /\ test = "verify_running_config_diffs"
    /\ result.result = "failure"
    /\ Len(result.messages) = 3

\* text.split('\n') of a text given as its characters: the lines, in order.
RECURSIVE SplitLines(_, _)
SplitLines(chars, line) ==
    IF chars = <<>> THEN <<line>>
    ELSE IF Head(chars) = "\n" THEN <<line>> \o SplitLines(Tail(chars), "")
    ELSE SplitLines(Tail(chars), line \o Head(chars))

\* The device reports no difference: no output, or nothing but empty lines.
NoDifference(output) ==
    \/ output.kind = "None"
    \/ output.kind = "list" /\ \A i \in DOMAIN output.value : output.value[i] = ""
    \/ output.kind = "str" /\ \A i \in DOMAIN output.value : output.value[i] = "\n"

\* C18: VerifyRunningConfigDiffs is a success without message when the device
\* reports no difference, and for a diff given as text it is a failure whose
\* messages are the lines of the text, in order.
C18_RunningConfigDiffs ==
    (pc = "done" /\ test = "verify_running_config_diffs" /\ Answered) =>
        /\ NoDifference(response) =>
                result.result = "success" /\ result.messages = <<>>
        /\ (response.kind = "str" /\ ~NoDifference(response)) =>
                /\ result.result = "failure"
                /\ result.messages = SplitLines(response.value, "")

\* A 'show interfaces description' response with the fields of the device
\* schema: Vxlan1, when present, has lineProtocolStatus and interfaceStatus.
WellFormedDescriptions(resp) ==
    /\ "interfaceDescriptions" \in DOMAIN resp
    /\ "Vxlan1" \in DOMAIN resp.interfaceDescriptions =>
            {"lineProtocolStatus", "interfaceStatus"} \subseteq DOMAIN resp.interfaceDescriptions["Vxlan1"]
Vxlan1Up(resp) ==
    /\ "Vxlan1" \in DOMAIN resp.interfaceDescriptions
    /\ resp.interfaceDescriptions["Vxlan1"]["lineProtocolStatus"] = "up"
    /\ resp.interfaceDescriptions["Vxlan1"]["interfaceStatus"] = "up"

\* C19: on a well-formed response verify_vxlan is a success iff Vxlan1 is there
\* and up/up, and a failure otherwise; it is an error only when the command
\* fails or the response lacks a field of the schema.
C19_Vxlan ==
    (pc = "done" /\ test = "verify_vxlan" /\ Answered /\ WellFormedDescriptions(response)) =>
        /\ returned = "TestResult"
        /\ result.result = (IF Vxlan1Up(response) THEN "success" ELSE "failure")

\* The device is not one the field notice is about: its model name, the
\* variant suffixes removed, is not in the list of affected models.
NotImpacted(resp) ==
    "modelName" \in DOMAIN resp /\ strip_variants(resp.modelName, 1) \notin devices

\* C20: verify_field_notice_44_resolution on a device that is not impacted
\* ends with the message 'device is not impacted by FN044' and a status other
\* than failure, whatever the Aboot version.
C20_NotImpacted ==
    (Completed /\ test = "verify_field_notice_44_resolution" /\ Answered
        /\ NotImpacted(response) /\ result.result /= "error") =>
        /\ "device is not impacted by FN044" \in Range(result.messages)
        /\ result.result /= "failure"

\* C21: a BGP count check given a number, 0 included (and, for IPv4 unicast, a
\* vrf), on a device where the address family is configured, is not skipped:
\* it sends its command and ends on what the device answered.
C21_SkippedOnlyWhenAbsent ==
    (/\ pc = "done" /\ test \in CountChecks
     /\ args.number /= None
     /\ test = "verify_bgp_ipv4_unicast_count" => args.vrf /= None
     /\ ~FamilyDisabled(result)) =>
        /\ result.result /= "skipped"
        /\ Len(rpcs) = 1

====
